---- MODULE Spec2Model ----
(***************************************************************************)
(* A model of the shaku dependency-injection engine.                       *)
(*                                                                         *)
(*   - ContainerBuilder (container_builder.rs): registration_map,          *)
(*     register_type, register_lambda, build.                              *)
(*   - ContainerBuildContext / Container / RegisteredType / Provider: the  *)
(*     source of these is not part of the tree; they are modelled from     *)
(*     sections 4.2, 4.3, 4.4 and 6 of the specification.                  *)
(*   - module! (module.rs): the generated struct, Module::build,           *)
(*     HasComponent::get_ref / get_mut and HasProvider.                    *)
(*   - Component::build (component.rs): the build procedure.               *)
(***************************************************************************)
EXTENDS Naturals, Sequences, FiniteSets

VARIABLES
    layer,            \* "container" (ContainerBuilder) or "module" (module!)
    phase,            \* "registering", "building", "built", "failed"
    registration_map, \* ContainerBuilder.registration_map: TypeId -> RegisteredType
    handle,           \* the &mut RegisteredType returned by the last register call
    warning,          \* the diagnostic emitted by the step just taken, if any
    n_registrations,  \* number of register calls made so far
    last_call,        \* history: the arguments of the most recent register call
    last_registered,  \* history: per interface, the arguments of its latest register call
    declared,         \* module!: the components and providers of the descriptor
    resolved_map,     \* build context: memoized instances of this pass
    in_progress,      \* build context: the chain of interfaces being resolved
    stack,            \* build context: the recursion of resolve
    top_resolved,     \* what the top-level loop's resolve calls have returned
    build_count,      \* history: invocations of each interface's build procedure
    resolve_calls,    \* history: number of resolve calls of this pass
    error,            \* the error the pass ended with
    container,        \* the Container build() returned, if it returned one
    module,           \* the struct Module::build returned, if it has returned
    retrieved,        \* history: the results of the retrievals made so far
    provided          \* history: the instances the provider retrievals returned

vars == <<layer, phase, registration_map, handle, warning, n_registrations,
          last_call, last_registered, declared, resolved_map, in_progress,
          stack, top_resolved, build_count, resolve_calls, error, container,
          module, retrieved, provided>>

builderVars == <<registration_map, handle, warning, n_registrations,
                 last_call, last_registered>>
contextVars == <<resolved_map, in_progress, stack, top_resolved, build_count,
                 resolve_calls, error>>
storeVars   == <<container, module, retrieved, provided>>

----------------------------------------------------------------------------
(* Bounds and input sets *)

Identities    == {"A", "B", "C"}
IdentityOrder == <<"A", "B", "C">>
Components    == {"Impl1", "Impl2"}
ModuleImplName == "Impl1"
ProviderName  == "P"
ParameterNames == {"p"}

MaxDeps       == 2
MaxRegs       == 4
MaxRetrievals == 3

None == "none"

\* Dependency lists over S: at most MaxDeps entries, no interface named twice.
DepLists(S) ==
    UNION { { s \in [1..n -> S] : \A a, b \in 1..n : a # b => s[a] # s[b] }
            : n \in 0..MaxDeps }

\* A component type C: its Interface, its type_name and C::dependencies().
ComponentTypes ==
    [interface : Identities, name : Components, dependencies : DepLists(Identities)]

NoCall == [interface |-> None, name |-> None, dependencies |-> <<>>]

----------------------------------------------------------------------------
(* Maps *)

EmptyMap == [x \in {} |-> x]

Insert(m, k, v) == [x \in DOMAIN m \cup {k} |-> IF x = k THEN v ELSE m[x]]

Range(s) == { s[k] : k \in DOMAIN s }

IndexOf(s, x) == CHOOSE k \in DOMAIN s : s[k] = x /\ \A j \in 1..(k - 1) : s[j] # x

----------------------------------------------------------------------------
(* ContainerBuilder *)

RegisteredType_new(component_name, build, dependencies) ==
    [component    |-> component_name,
     build        |-> build,
     dependencies |-> dependencies,
     parameters   |-> {}]

\* Mutant of register_lambda: the first registration of an interface is kept.
register_lambda_keep_first(map, interface_type_id, component_name, build, dependencies) ==
    IF interface_type_id \in DOMAIN map
    THEN map
    ELSE Insert(map, interface_type_id,
                RegisteredType_new(component_name, build, dependencies))

\* Mutant of register_lambda: the new record inherits the parameter overrides
\* of the record it replaces.
register_lambda_keep_parameters(map, interface_type_id, component_name, build, dependencies) ==
    Insert(map, interface_type_id,
           [RegisteredType_new(component_name, build, dependencies)
              EXCEPT !.parameters = IF interface_type_id \in DOMAIN map
                                    THEN map[interface_type_id].parameters
                                    ELSE {}])

\* Mutant of register_lambda: a registration whose dependencies are not
\* registered yet is rejected.
register_lambda_validates(map, interface_type_id, component_name, build, dependencies) ==
    IF Range(dependencies) \subseteq DOMAIN map \cup {interface_type_id}
    THEN Insert(map, interface_type_id,
                RegisteredType_new(component_name, build, dependencies))
    ELSE map

\* registration_map.insert(interface_type_id, registered_type)
register_lambda(map, interface_type_id, component_name, build, dependencies) ==
    Insert(map, interface_type_id,
           RegisteredType_new(component_name, build, dependencies))

\* let old_value = ...insert(...); if let Some(old_value) = old_value { warn!(..) }
old_value_warning(map, interface_type_id) ==
    IF interface_type_id \in DOMAIN map
    THEN [interface |-> interface_type_id,
          component |-> map[interface_type_id].component]
    ELSE [interface |-> None, component |-> None]

NoWarning == [interface |-> None, component |-> None]

\* self.registration_map.get_mut(&interface_type_id).unwrap()
returned_registration(interface_type_id) == interface_type_id

\* register_type::<C>() = register_lambda::<C::Interface>(type_name::<C>(),
\*                                        Box::new(C::build), C::dependencies())
register_type(map, C) ==
    register_lambda(map, C.interface, C.name, C.name, C.dependencies)

\* ContainerBuilder::new() / Default: an empty registration_map.
ContainerBuilder_new == EmptyMap

----------------------------------------------------------------------------
(* module!: the descriptor and what the macro generates from it *)

NoModule == [built |-> FALSE, fields |-> EmptyMap]
NoContainer == [built |-> FALSE, components |-> EmptyMap]
NoDeclaration == [components |-> <<>>, providers |-> <<>>]

\* The interfaces of components = [...], in declaration order.
ModuleComponents == [k \in DOMAIN declared.components |-> declared.components[k].interface]

\* impl HasComponent<I> for $module { type Impl = $component; }
HasComponent_Impl ==
    [i \in Range(ModuleComponents) |->
        LET C == declared.components[IndexOf(ModuleComponents, i)]
        IN  RegisteredType_new(C.name, C.name, C.dependencies)]

\* impl HasProvider<I> for $module { type Impl = $provider; }
HasProvider_Impl ==
    [p \in { declared.providers[k].name : k \in DOMAIN declared.providers } |->
        (CHOOSE P \in Range(declared.providers) : P.name = p).dependencies]

\* Mutant of ModuleStruct: the struct also keeps a field for every provider.
ModuleStruct_with_providers(resolved) ==
    [built  |-> TRUE,
     fields |-> [f \in DOMAIN resolved \cup DOMAIN HasProvider_Impl |->
                   IF f \in DOMAIN resolved THEN resolved[f]
                   ELSE [addr |-> [of |-> f, n |-> 0], component |-> f,
                         dependencies |-> <<>>, parameters |-> {}]]]

\* Mutant of ModuleStruct: each field is built by a build procedure of its own
\* instead of being resolved through the context.
ModuleStruct_builds_fields(resolved) ==
    [built  |-> TRUE,
     fields |-> [f \in Range(ModuleComponents) |->
                   [resolved[f] EXCEPT !.addr = [of |-> f, n |-> 2]]]]

\* struct $module { $( $component: Arc<Interface> ),* }: one field per
\* component, none for a provider.
ModuleStruct(resolved) ==
    [built |-> TRUE, fields |-> [f \in Range(ModuleComponents) |-> resolved[f]]]

\* Mutant of get_ref: hands out the first field whatever interface is asked for.
get_ref_first_field(m, i) == m.fields[ModuleComponents[1]]

\* fn get_ref(&self) -> &Arc<I> { &self.$component }
get_ref(m, i) == m.fields[i]

\* fn get_mut(&mut self) -> &mut Arc<I> { &mut self.$component }
get_mut(m, i) == m.fields[i]

----------------------------------------------------------------------------
(* Component::build: the build procedure produces a new boxed instance.    *)
(* An instance is named by its address: the interface it was built for and *)
(* the ordinal of the invocation that built it.                            *)

Component_build(registration, interface, resolved_dependencies, nth) ==
    [addr         |-> [of |-> interface, n |-> nth],
     component    |-> registration.build,
     dependencies |-> resolved_dependencies,
     parameters   |-> registration.parameters]

----------------------------------------------------------------------------
(* The build context (modelled from section 4.2 of the specification) *)

NoError == [kind |-> None, interface |-> None, path |-> <<>>]

\* The registrations the context resolves against.
Registrations ==
    IF layer = "container" THEN registration_map ELSE HasComponent_Impl

Registered == DOMAIN Registrations

DependenciesOf(i) == Registrations[i].dependencies

\* The part of the resolve chain from the first occurrence of i on.
CyclePath(chain, i) == SubSeq(chain, IndexOf(chain, i), Len(chain))

\* What a call resolve(i) finds.
ResolveOutcome(i) ==
    IF i \in DOMAIN resolved_map THEN "memoized"
    ELSE IF i \notin Registered THEN "unregistered"
    ELSE IF i \in Range(in_progress) THEN "circular"
    ELSE "start"

\* Mutant of ResolveError: the whole resolve chain is reported as the cycle.
ResolveError_whole_chain(outcome, i) ==
    IF outcome = "circular"
    THEN [kind |-> "CircularDependency", interface |-> i, path |-> in_progress]
    ELSE [kind |-> "UnregisteredInterface", interface |-> i, path |-> <<>>]

\* The error a failing resolve(i) reports.
ResolveError(outcome, i) ==
    IF outcome = "circular"
    THEN [kind |-> "CircularDependency", interface |-> i,
          path |-> CyclePath(in_progress, i)]
    ELSE [kind |-> "UnregisteredInterface", interface |-> i, path |-> <<>>]

\* The frame resolve(i) runs in: the next dependency to resolve and the
\* references resolved so far.
NewFrame(i) == [interface |-> i, next |-> 1, resolved |-> <<>>]

\* The stack after a resolve call made under stack stk has returned instance v.
Returned(stk, v) ==
    IF stk = <<>> THEN stk
    ELSE [stk EXCEPT ![Len(stk)].resolved = Append(@, v.addr),
                     ![Len(stk)].next = @ + 1]

\* What the top-level loop holds after resolve(i) returned v to it.
TopReturned(stk, i, v) ==
    IF stk = <<>> THEN Insert(top_resolved, i, v) ELSE top_resolved

\* Mutant of Abort: the instances built so far survive the failure as a store.
Abort_keeps_partial(e) ==
    /\ phase' = "failed"
    /\ error' = e
    /\ container' = [built |-> TRUE, components |-> resolved_map]
    /\ resolved_map' = resolved_map
    /\ in_progress' = <<>>
    /\ stack' = <<>>
    /\ top_resolved' = EmptyMap
    /\ UNCHANGED <<build_count, module>>

\* An error ends the pass: everything built so far is dropped with the context.
Abort(e) ==
    /\ phase' = "failed"
    /\ error' = e
    /\ resolved_map' = EmptyMap
    /\ in_progress' = <<>>
    /\ stack' = <<>>
    /\ top_resolved' = EmptyMap
    /\ UNCHANGED <<build_count, container, module>>

\* resolve(i), called under the current stack.
Resolve(i) ==
    LET outcome == ResolveOutcome(i) IN
    /\ resolve_calls' = resolve_calls + 1
    /\ IF outcome = "memoized" THEN
            /\ stack' = Returned(stack, resolved_map[i])
            /\ top_resolved' = TopReturned(stack, i, resolved_map[i])
            /\ UNCHANGED <<phase, resolved_map, in_progress, build_count, error,
                           container, module>>
       ELSE IF outcome = "start" THEN
            /\ in_progress' = Append(in_progress, i)
            /\ stack' = Append(stack, NewFrame(i))
            /\ UNCHANGED <<phase, resolved_map, top_resolved, build_count, error,
                           container, module>>
       ELSE Abort(ResolveError(outcome, i))

----------------------------------------------------------------------------
(* Actions of the ContainerBuilder *)

\* The component a caller registers for interface i: Impl1 first, and on a
\* re-registration the component that is not registered for i now.
NextComponent(map, i) ==
    IF i \in DOMAIN map /\ map[i].component = "Impl1" THEN "Impl2" ELSE "Impl1"

\* builder.register_type::<C>()
Register(C) ==
    /\ layer = "container"
    /\ phase = "registering"
    /\ n_registrations < MaxRegs
    /\ C.name = NextComponent(registration_map, C.interface)
    /\ registration_map' = register_type(registration_map, C)
    /\ warning' = old_value_warning(registration_map, C.interface)
    /\ handle' = returned_registration(C.interface)
    /\ n_registrations' = n_registrations + 1
    /\ last_call' = C
    /\ last_registered' = Insert(last_registered, C.interface, C)
    /\ UNCHANGED <<layer, phase, declared>>
    /\ UNCHANGED contextVars
    /\ UNCHANGED storeVars

\* registered_type.with_named_parameter(p, ..) on the returned registration
\* (modelled from section 6 of the specification).
WithParameter(p) ==
    /\ layer = "container"
    /\ phase = "registering"
    /\ handle # None
    /\ p \notin registration_map[handle].parameters
    /\ registration_map' =
          [registration_map EXCEPT ![handle].parameters = @ \cup {p}]
    /\ warning' = NoWarning
    /\ UNCHANGED <<layer, phase, declared, handle, n_registrations, last_call,
                   last_registered>>
    /\ UNCHANGED contextVars
    /\ UNCHANGED storeVars

\* Mutant of build: the pass starts on a default (empty) registration map
\* instead of the builder's.
build_default_context ==
    /\ layer = "container"
    /\ phase = "registering"
    /\ phase' = "building"
    /\ registration_map' = EmptyMap
    /\ handle' = None
    /\ warning' = NoWarning
    /\ last_call' = NoCall
    /\ resolved_map' = EmptyMap
    /\ in_progress' = <<>>
    /\ stack' = <<>>
    /\ top_resolved' = EmptyMap
    /\ error' = NoError
    /\ UNCHANGED <<layer, declared, n_registrations, last_registered, build_count,
                   resolve_calls>>
    /\ UNCHANGED storeVars

\* builder.build(): ContainerBuildContext::new(self.registration_map).build().
\* The builder is consumed; its registration_map moves into the context, on
\* which the pass then runs.
build ==
    /\ layer = "container"
    /\ phase = "registering"
    /\ phase' = "building"
    /\ registration_map' = registration_map
    /\ handle' = None
    /\ warning' = NoWarning
    /\ last_call' = NoCall
    /\ resolved_map' = EmptyMap
    /\ in_progress' = <<>>
    /\ stack' = <<>>
    /\ top_resolved' = EmptyMap
    /\ error' = NoError
    /\ UNCHANGED <<layer, declared, n_registrations, last_registered, build_count,
                   resolve_calls>>
    /\ UNCHANGED storeVars

----------------------------------------------------------------------------
(* Actions of the build pass *)

\* The registrations the top-level loop of the pass has still to resolve:
\* every registration, in the map's iteration order.
ContextBuildTargets == Registered \ DOMAIN top_resolved

\* One iteration of the top-level loop of ContainerBuildContext::build.
ContextBuildNext ==
    /\ layer = "container"
    /\ phase = "building"
    /\ stack = <<>>
    /\ \E i \in ContextBuildTargets : Resolve(i)
    /\ warning' = NoWarning
    /\ UNCHANGED <<layer, declared, registration_map, handle, n_registrations,
                   last_call, last_registered, retrieved, provided>>

\* Mutant of ModuleBuildTargets: the fields are resolved last to first.
ModuleBuildTargets_reversed ==
    LET done == Cardinality(DOMAIN top_resolved)
    IN  IF done < Len(ModuleComponents)
        THEN {ModuleComponents[Len(ModuleComponents) - done]} ELSE {}

\* Self { $( $component: context.resolve::<Interface>() ),* }: the next field
\* of the struct, in declaration order.
ModuleBuildTargets ==
    LET done == Cardinality(DOMAIN top_resolved)
    IN  IF done < Len(ModuleComponents) THEN {ModuleComponents[done + 1]} ELSE {}

\* Module::build resolves the next component of the descriptor.
ModuleBuildField ==
    /\ layer = "module"
    /\ phase = "building"
    /\ stack = <<>>
    /\ \E i \in ModuleBuildTargets : Resolve(i)
    /\ warning' = NoWarning
    /\ UNCHANGED <<layer, declared, registration_map, handle, n_registrations,
                   last_call, last_registered, retrieved, provided>>

\* The dependency the frame resolves next: declaration order.
NextDependency(frame) == DependenciesOf(frame.interface)[frame.next]

\* Every declared dependency of the frame's interface has been resolved.
DependenciesResolved(frame) == frame.next > Len(DependenciesOf(frame.interface))

\* resolve(i) resolves the next declared dependency of i.
ResolveDependency ==
    /\ phase = "building"
    /\ stack # <<>>
    /\ ~DependenciesResolved(stack[Len(stack)])
    /\ Resolve(NextDependency(stack[Len(stack)]))
    /\ warning' = NoWarning
    /\ UNCHANGED <<layer, declared, registration_map, handle, n_registrations,
                   last_call, last_registered, retrieved, provided>>

\* The resolve chain once its last interface is unmarked.
Unmarked(chain) == SubSeq(chain, 1, Len(chain) - 1)

\* resolve(i) invokes the build procedure of i with the resolved dependencies,
\* unmarks i, memoizes the instance and returns it.
BuildComponent ==
    /\ phase = "building"
    /\ stack # <<>>
    /\ DependenciesResolved(stack[Len(stack)])
    /\ LET frame == stack[Len(stack)]
           i == frame.interface
           instance == Component_build(Registrations[i], i, frame.resolved,
                                       build_count[i] + 1)
           callers == SubSeq(stack, 1, Len(stack) - 1)
       IN  /\ build_count' = [build_count EXCEPT ![i] = @ + 1]
           /\ in_progress' = Unmarked(in_progress)
           /\ resolved_map' = Insert(resolved_map, i, instance)
           /\ stack' = Returned(callers, instance)
           /\ top_resolved' = TopReturned(callers, i, instance)
    /\ warning' = NoWarning
    /\ UNCHANGED <<layer, phase, declared, registration_map, handle, n_registrations,
                   last_call, last_registered, resolve_calls, error>>
    /\ UNCHANGED storeVars

\* The top-level loop is over: Ok(Container::new(resolved_map)).
ContextBuildFinish ==
    /\ layer = "container"
    /\ phase = "building"
    /\ stack = <<>>
    /\ ContextBuildTargets = {}
    /\ phase' = "built"
    /\ container' = [built |-> TRUE, components |-> resolved_map]
    /\ warning' = NoWarning
    /\ UNCHANGED <<layer, declared, registration_map, handle, n_registrations,
                   last_call, last_registered, module, retrieved, provided>>
    /\ UNCHANGED contextVars

\* Every field is resolved: Module::build returns the struct.
ModuleBuildFinish ==
    /\ layer = "module"
    /\ phase = "building"
    /\ stack = <<>>
    /\ ModuleBuildTargets = {}
    /\ phase' = "built"
    /\ module' = ModuleStruct(top_resolved)
    /\ warning' = NoWarning
    /\ UNCHANGED <<layer, declared, registration_map, handle, n_registrations,
                   last_call, last_registered, container, retrieved, provided>>
    /\ UNCHANGED contextVars

----------------------------------------------------------------------------
(* Retrieval *)

NoAddr == [of |-> None, n |-> 0]

\* Container::resolve::<I>() (modelled from section 4.3 of the specification):
\* a new shared reference to the stored instance, or an error.
Container_resolve(c, i) ==
    IF i \in DOMAIN c.components THEN c.components[i].addr ELSE NoAddr

\* container.resolve::<I>()
ContainerResolve(i) ==
    /\ layer = "container"
    /\ phase = "built"
    /\ Len(retrieved) < MaxRetrievals
    /\ retrieved' = Append(retrieved,
                           [interface |-> i, addr |-> Container_resolve(container, i)])
    /\ warning' = NoWarning
    /\ UNCHANGED <<layer, phase, declared, registration_map, handle, n_registrations,
                   last_call, last_registered, container, module, provided>>
    /\ UNCHANGED contextVars

\* HasComponent::<I>::get_ref(&module), I a component of the module
GetRef(i) ==
    /\ layer = "module"
    /\ phase = "built"
    /\ i \in Range(ModuleComponents)
    /\ Len(retrieved) < MaxRetrievals
    /\ retrieved' = Append(retrieved,
                           [interface |-> i, addr |-> get_ref(module, i).addr])
    /\ warning' = NoWarning
    /\ UNCHANGED <<layer, phase, declared, registration_map, handle, n_registrations,
                   last_call, last_registered, container, module, provided>>
    /\ UNCHANGED contextVars

\* HasComponent::<I>::get_mut(&mut module), I a component of the module
GetMut(i) ==
    /\ layer = "module"
    /\ phase = "built"
    /\ i \in Range(ModuleComponents)
    /\ Len(retrieved) < MaxRetrievals
    /\ retrieved' = Append(retrieved,
                           [interface |-> i, addr |-> get_mut(module, i).addr])
    /\ warning' = NoWarning
    /\ UNCHANGED <<layer, phase, declared, registration_map, handle, n_registrations,
                   last_call, last_registered, container, module, provided>>
    /\ UNCHANGED contextVars

\* Provider::provide(&module) (modelled from section 4.4 of the specification):
\* the provider's build procedure run against the module's components.
Provider_provide(m, p, nth) ==
    [addr         |-> [of |-> p, n |-> nth],
     component    |-> p,
     dependencies |-> [k \in DOMAIN HasProvider_Impl[p] |->
                          get_ref(m, HasProvider_Impl[p][k]).addr],
     parameters   |-> {}]

\* HasProvider::<I>::provide(&module), I a provider of the module
Provide(p) ==
    /\ layer = "module"
    /\ phase = "built"
    /\ p \in DOMAIN HasProvider_Impl
    /\ Len(provided) < MaxRetrievals
    /\ provided' = Append(provided, Provider_provide(module, p, build_count[p] + 1))
    /\ build_count' = [build_count EXCEPT ![p] = @ + 1]
    /\ warning' = NoWarning
    /\ UNCHANGED <<layer, phase, declared, registration_map, handle, n_registrations,
                   last_call, last_registered, container, module, retrieved>>
    /\ UNCHANGED <<resolved_map, in_progress, stack, top_resolved, resolve_calls, error>>

----------------------------------------------------------------------------
(* Specifications *)

Fresh ==
    /\ registration_map = ContainerBuilder_new
    /\ handle = None
    /\ warning = NoWarning
    /\ n_registrations = 0
    /\ last_call = NoCall
    /\ last_registered = EmptyMap
    /\ resolved_map = EmptyMap
    /\ in_progress = <<>>
    /\ stack = <<>>
    /\ top_resolved = EmptyMap
    /\ build_count = [i \in Identities \cup {ProviderName} |-> 0]
    /\ resolve_calls = 0
    /\ error = NoError
    /\ container = NoContainer
    /\ module = NoModule
    /\ retrieved = <<>>
    /\ provided = <<>>

\* A new ContainerBuilder.
Init ==
    /\ layer = "container"
    /\ phase = "registering"
    /\ declared = NoDeclaration
    /\ Fresh

\* The dependency lists a component or provider of a module with the
\* components S may declare: the HasComponent bounds hold at compile time.
ModuleDepLists(S) == DepLists(S)

\* The descriptors module! accepts: the first k interfaces as components, each
\* depending on components of the module, and at most one provider depending
\* on components of the module.
ModuleDeclaration(k, d, ps) ==
    [components |-> [j \in 1..k |->
                       [interface    |-> IdentityOrder[j],
                        name         |-> ModuleImplName,
                        dependencies |-> d[j]]],
     providers  |-> ps]

\* A module about to be built by Module::build.
InitModule ==
    /\ layer = "module"
    /\ phase = "building"
    /\ \E k \in 0..Len(IdentityOrder) :
         LET S == { IdentityOrder[j] : j \in 1..k } IN
         \E d \in [1..k -> ModuleDepLists(S)] :
         \E ps \in {<<>>} \cup { <<[name |-> ProviderName, dependencies |-> pd]>>
                                 : pd \in ModuleDepLists(S) } :
            declared = ModuleDeclaration(k, d, ps)
    /\ Fresh

Next ==
    \/ \E C \in ComponentTypes : Register(C)
    \/ build
    \/ ContextBuildNext
    \/ ResolveDependency
    \/ BuildComponent
    \/ ContextBuildFinish
    \/ \E i \in Identities : ContainerResolve(i)

\* Component types with at most one dependency.
ShortComponentTypes ==
    { C \in ComponentTypes : Len(C.dependencies) <= 1 }

NextReg ==
    \/ \E C \in ShortComponentTypes : Register(C)
    \/ \E p \in ParameterNames : WithParameter(p)

NextModule ==
    \/ ModuleBuildField
    \/ ResolveDependency
    \/ BuildComponent
    \/ ModuleBuildFinish
    \/ \E i \in Identities : GetRef(i)
    \/ \E i \in Identities : GetMut(i)
    \/ \E p \in {ProviderName} : Provide(p)

Spec == Init /\ [][Next]_vars

SpecReg == Init /\ [][NextReg]_vars

SpecModule == InitModule /\ [][NextModule]_vars

----------------------------------------------------------------------------
(* The dependency graph of a set of registrations *)

\* What the caller registered: per interface, its latest register call.
Registry == last_registered

DependencySet(reg, i) == Range(reg[i].dependencies)

\* The interfaces some registration depends on that have no registration.
MissingDependencies(reg) ==
    UNION { DependencySet(reg, i) : i \in DOMAIN reg } \ DOMAIN reg

Successors(reg, S) ==
    UNION { DependencySet(reg, i) \cap DOMAIN reg : i \in S }

RECURSIVE ReachableFrom(_, _, _)
ReachableFrom(reg, S, n) ==
    IF n = 0 THEN S ELSE ReachableFrom(reg, S \cup Successors(reg, S), n - 1)

\* The registrations reachable from i over one or more dependencies.
DependsOn(reg, i) ==
    ReachableFrom(reg, Successors(reg, {i}), Cardinality(DOMAIN reg))

Cyclic(reg) == \E i \in DOMAIN reg : i \in DependsOn(reg, i)

\* p lists the interfaces of a cycle, each once, in dependency order.
IsCycle(reg, p) ==
    /\ Len(p) >= 1
    /\ \A k \in DOMAIN p : p[k] \in DOMAIN reg
    /\ \A k, l \in DOMAIN p : k # l => p[k] # p[l]
    /\ \A k \in 1..(Len(p) - 1) : p[k + 1] \in DependencySet(reg, p[k])
    /\ p[1] \in DependencySet(reg, p[Len(p)])

\* No registration depends on i.
Orphan(reg, i) == \A j \in DOMAIN reg : i \notin DependencySet(reg, j)

Finished == phase \in {"built", "failed"}

----------------------------------------------------------------------------
(* C1 *)

\* C1: registering twice under one interface keeps only the latest
\* registration.  The registration map holds one record per interface, the
\* one of its latest register call; a build of a registry with duplicates
\* fails only for a missing or circular dependency, never for the overwrite;
\* after a build the store holds, and resolve returns, the instance built by
\* the build procedure registered last.
C1_LastRegistrationWins ==
    /\ DOMAIN registration_map = DOMAIN Registry
    /\ \A i \in DOMAIN Registry :
          /\ registration_map[i].component = Registry[i].name
          /\ registration_map[i].build = Registry[i].name
          /\ registration_map[i].dependencies = Registry[i].dependencies
    /\ phase = "failed" =>
          MissingDependencies(Registry) # {} \/ Cyclic(Registry)
    /\ phase = "built" =>
          /\ container.built
          /\ \A i \in DOMAIN Registry :
                /\ i \in DOMAIN container.components
                /\ container.components[i].component = Registry[i].name
          /\ \A k \in DOMAIN retrieved :
                retrieved[k].interface \in DOMAIN Registry =>
                    /\ retrieved[k].addr # NoAddr
                    /\ retrieved[k].addr =
                          container.components[retrieved[k].interface].addr

\* A built store from which an interface registered twice was resolved: the
\* instance is Impl2's, the component of the second registration.
C1_Witness ==
    /\ phase = "built"
    /\ n_registrations > Cardinality(DOMAIN registration_map)
    /\ \E k \in DOMAIN retrieved :
          /\ retrieved[k].interface \in DOMAIN container.components
          /\ container.components[retrieved[k].interface].component = "Impl2"
          /\ retrieved[k].addr # NoAddr

----------------------------------------------------------------------------
(* C2 *)

\* The addresses of the instances of a store.
Addresses(components) == { components[i].addr : i \in DOMAIN components }

\* The resolve calls a pass over reg can make: one per registration from the
\* top-level loop and one per declared dependency.
MaxResolveCalls(reg) ==
    LET RECURSIVE Sum(_)
        Sum(S) == IF S = {} THEN 0
                  ELSE LET i == CHOOSE x \in S : TRUE
                       IN  1 + Len(reg[i].dependencies) + Sum(S \ {i})
    IN  Sum(DOMAIN reg)

\* C2: a registry with no missing dependency and no cycle builds: the pass
\* never fails, always has a next step until it is over and makes a bounded
\* number of resolve calls, and once it is over the store holds exactly the
\* registered interfaces, orphans included, each with an instance of its
\* own, built by exactly one invocation of its build procedure.
C2_WellFormedRegistryBuilds ==
    (MissingDependencies(Registry) = {} /\ ~Cyclic(Registry)) =>
        /\ phase # "failed"
        /\ error = NoError
        /\ phase = "building" =>
              /\ ENABLED Next
              /\ resolve_calls <= MaxResolveCalls(Registry)
        /\ phase = "built" =>
              /\ container.built
              /\ DOMAIN container.components = DOMAIN Registry
              /\ Cardinality(Addresses(container.components)) =
                    Cardinality(DOMAIN Registry)
              /\ \A i \in Identities :
                    build_count[i] = IF i \in DOMAIN Registry THEN 1 ELSE 0
              /\ \A i \in DOMAIN Registry :
                    container.components[i].addr.of = i

\* A built store of three registrations, one of them an orphan with no
\* dependencies of its own, beside a registration that has dependencies.
C2_Witness ==
    /\ phase = "built"
    /\ Cardinality(DOMAIN Registry) = 3
    /\ DOMAIN container.components = DOMAIN Registry
    /\ \E i, j \in DOMAIN Registry :
          /\ i # j
          /\ Orphan(Registry, i)
          /\ Registry[i].dependencies = <<>>
          /\ Registry[j].dependencies # <<>>

----------------------------------------------------------------------------
(* C3 *)

\* C3 as stated: a registry with a cycle fails with CircularDependency naming
\* the cycle.
C3_Original ==
    (Finished /\ Cyclic(Registry)) =>
        /\ phase = "failed"
        /\ error.kind = "CircularDependency"
        /\ IsCycle(Registry, error.path)

\* C3, amended: a registry with a cycle never builds; the pass ends failed
\* after a bounded number of resolve calls, with CircularDependency unless an
\* unregistered dependency is reached first (then UnregisteredInterface).  No
\* interface is ever in progress twice, and a reported CircularDependency
\* path lists exactly the interfaces of one cycle, starting at the interface
\* that was re-entered.
C3_CycleFails ==
    /\ (Finished /\ Cyclic(Registry)) =>
          /\ phase = "failed"
          /\ ~container.built
          /\ error.kind \in {"CircularDependency", "UnregisteredInterface"}
          /\ MissingDependencies(Registry) = {} => error.kind = "CircularDependency"
    /\ error.kind = "CircularDependency" =>
          /\ phase = "failed"
          /\ IsCycle(Registry, error.path)
          /\ error.path[1] = error.interface
    /\ \A k, l \in DOMAIN in_progress : k # l => in_progress[k] # in_progress[l]
    /\ resolve_calls <= MaxResolveCalls(Registry)

\* A failed pass over three registrations that reports a cycle of two of
\* them, reached through the third.
C3_Witness ==
    /\ phase = "failed"
    /\ error.kind = "CircularDependency"
    /\ Len(error.path) = 2
    /\ Cardinality(DOMAIN Registry) = 3
    /\ \E i \in DOMAIN Registry :
          /\ i \notin Range(error.path)
          /\ error.path[1] \in DependencySet(Registry, i)

----------------------------------------------------------------------------
(* C4 *)

\* C4 as stated: a registry that references an unregistered interface fails
\* with UnregisteredInterface naming it.
C4_Original ==
    (Finished /\ MissingDependencies(Registry) # {}) =>
        /\ phase = "failed"
        /\ error.kind = "UnregisteredInterface"
        /\ error.interface \in MissingDependencies(Registry)

\* C4, amended: a register call stores the registration whatever its
\* dependency list names, and no error exists before the build.  A registry
\* that references an unregistered interface never builds: the pass fails,
\* with UnregisteredInterface naming an unregistered interface that some
\* registration declares, unless a cycle is reached first (then
\* CircularDependency); it fails also when the declaring registration is an
\* orphan.
C4_MissingDependencyFails ==
    /\ phase = "registering" =>
          /\ error = NoError
          /\ last_call # NoCall =>
                /\ last_call.interface \in DOMAIN registration_map
                /\ registration_map[last_call.interface].dependencies =
                      last_call.dependencies
    /\ (Finished /\ MissingDependencies(Registry) # {}) =>
          /\ phase = "failed"
          /\ ~container.built
          /\ error.kind \in {"UnregisteredInterface", "CircularDependency"}
          /\ ~Cyclic(Registry) => error.kind = "UnregisteredInterface"
    /\ error.kind = "UnregisteredInterface" =>
          /\ phase = "failed"
          /\ error.interface \in MissingDependencies(Registry)

\* A failed pass where the only registration that declares the missing
\* interface is an orphan, beside another registration.
C4_Witness ==
    /\ phase = "failed"
    /\ error.kind = "UnregisteredInterface"
    /\ Cardinality(DOMAIN Registry) = 2
    /\ \E i \in DOMAIN Registry :
          /\ error.interface \in DependencySet(Registry, i)
          /\ Orphan(Registry, i)
          /\ \A j \in DOMAIN Registry \ {i} :
                error.interface \notin DependencySet(Registry, j)

----------------------------------------------------------------------------
(* The descriptor of a module as a dependency graph *)

ModuleRegistry ==
    [i \in { declared.components[k].interface : k \in DOMAIN declared.components } |->
        (CHOOSE C \in Range(declared.components) : C.interface = i)]

DeclaredOrder ==
    [k \in DOMAIN declared.components |-> declared.components[k].interface]

\* The depth-first post-order of the graph reg, entered at the interfaces of
\* roots in order, the dependencies of an interface taken in declaration
\* order (defined for a graph without cycles).
RECURSIVE VisitList(_, _, _, _)
VisitList(reg, list, k, visited) ==
    IF k > Len(list) THEN visited
    ELSE VisitList(reg, list, k + 1,
                   IF list[k] \in Range(visited) THEN visited
                   ELSE Append(VisitList(reg, reg[list[k]].dependencies, 1, visited),
                               list[k]))

PostOrder(reg, roots) == VisitList(reg, roots, 1, <<>>)

----------------------------------------------------------------------------
(* C5 *)

\* C5: an interface is built at most once per pass.  Its build procedure is
\* invoked at most once; every resolve of a built interface, from the top
\* level or from a dependent, returns the memoized instance; and in the built
\* module each dependency reference of a component is the very instance the
\* module returns for that dependency.
C5_BuiltAtMostOnce ==
    /\ \A i \in Identities : build_count[i] <= 1
    /\ \A i \in DOMAIN resolved_map :
          /\ build_count[i] = 1
          /\ resolved_map[i].addr = [of |-> i, n |-> 1]
    /\ \A i \in DOMAIN top_resolved : top_resolved[i] = resolved_map[i]
    /\ \A f \in DOMAIN stack : \A k \in DOMAIN stack[f].resolved :
          LET d == ModuleRegistry[stack[f].interface].dependencies[k]
          IN  /\ d \in DOMAIN resolved_map
              /\ stack[f].resolved[k] = resolved_map[d].addr
    /\ phase = "built" =>
          \A b \in DOMAIN ModuleRegistry :
             LET deps == ModuleRegistry[b].dependencies
                 held == get_ref(module, b).dependencies
             IN  /\ Len(held) = Len(deps)
                 /\ \A k \in DOMAIN deps : held[k] = get_ref(module, deps[k]).addr

\* A built module in which two components depend on a third, which was built
\* once.
C5_Witness ==
    /\ phase = "built"
    /\ \E a, b, c \in DOMAIN ModuleRegistry :
          /\ a # b /\ a # c /\ b # c
          /\ a \in DependencySet(ModuleRegistry, b)
          /\ a \in DependencySet(ModuleRegistry, c)
          /\ build_count[a] = 1
          /\ resolve_calls >= 5

----------------------------------------------------------------------------
(* C6 *)

\* C6: retrievals of a component return the instance created during the
\* build.  In a built module every retrieval, whatever retrievals of other
\* interfaces came between, returned the instance the pass memoized for its
\* interface; no build procedure of a component has run again; and each
\* field still holds the instance the pass built for it.
C6_RetrievalReturnsBuiltInstance ==
    phase = "built" =>
        /\ \A k \in DOMAIN retrieved :
              /\ retrieved[k].interface \in DOMAIN resolved_map
              /\ retrieved[k].addr = resolved_map[retrieved[k].interface].addr
        /\ \A k, l \in DOMAIN retrieved :
              retrieved[k].interface = retrieved[l].interface =>
                  retrieved[k].addr = retrieved[l].addr
        /\ \A i \in Identities :
              build_count[i] = IF i \in DOMAIN ModuleRegistry THEN 1 ELSE 0
        /\ DOMAIN module.fields = DOMAIN ModuleRegistry
        /\ \A i \in DOMAIN ModuleRegistry : module.fields[i] = resolved_map[i]

\* Three retrievals: one interface, another, then the first again.
C6_Witness ==
    /\ phase = "built"
    /\ Len(retrieved) = 3
    /\ retrieved[1].interface = retrieved[3].interface
    /\ retrieved[1].interface # retrieved[2].interface
    /\ retrieved[1].addr = retrieved[3].addr
    /\ retrieved[1].addr # retrieved[2].addr

----------------------------------------------------------------------------
(* C7 *)

ProviderDependencies == (CHOOSE P \in Range(declared.providers) : TRUE).dependencies

\* C7: a provider yields a new instance on every retrieval, a component the
\* same one.  The built module has one field per declared component and none
\* for a provider; every provider retrieval ran the provider's build
\* procedure once more, giving an instance of a new address whose
\* dependencies are the module's component instances; component retrievals
\* of one interface all return one instance; and the fields are as built.
C7_ProviderFreshComponentShared ==
    /\ module.built =>
          /\ phase = "built"
          /\ DOMAIN module.fields = Range(DeclaredOrder)
          /\ \A i \in DOMAIN module.fields :
                module.fields[i].addr = [of |-> i, n |-> 1]
    /\ build_count[ProviderName] = Len(provided)
    /\ \A k, l \in DOMAIN provided : k # l => provided[k].addr # provided[l].addr
    /\ \A k \in DOMAIN provided :
          /\ provided[k].addr \notin Addresses(module.fields)
          /\ Len(provided[k].dependencies) = Len(ProviderDependencies)
          /\ \A j \in DOMAIN ProviderDependencies :
                provided[k].dependencies[j] =
                    module.fields[ProviderDependencies[j]].addr
    /\ \A k, l \in DOMAIN retrieved :
          retrieved[k].interface = retrieved[l].interface =>
              retrieved[k].addr = retrieved[l].addr

\* Two provider retrievals and two retrievals of a component the provider
\* depends on.
C7_Witness ==
    /\ phase = "built"
    /\ Len(provided) >= 2
    /\ provided[1].addr # provided[2].addr
    /\ provided[1].dependencies # <<>>
    /\ Len(retrieved) >= 2
    /\ retrieved[1].interface = retrieved[2].interface
    /\ retrieved[1].addr = provided[2].dependencies[1]

----------------------------------------------------------------------------
(* C8 *)

\* C8: a build is all or nothing.  A store exists only after a pass that
\* ended without error, and it covers every registered interface; a failed
\* pass leaves an error and no store, the instances built before the error
\* are dropped, nothing of the pass stays pending, and no step follows the
\* failure (nothing is retried).
C8_AllOrNothing ==
    /\ container.built =>
          /\ phase = "built"
          /\ error = NoError
          /\ DOMAIN container.components = DOMAIN Registry
    /\ phase = "built" => container.built
    /\ phase = "failed" =>
          /\ container = NoContainer
          /\ error # NoError
          /\ resolved_map = EmptyMap
          /\ top_resolved = EmptyMap
          /\ stack = <<>>
          /\ in_progress = <<>>
          /\ retrieved = <<>>
          /\ \A i \in Identities : build_count[i] <= 1
          /\ ~ENABLED Next

\* A failed pass in which two instances had been built before the error.
C8_Witness ==
    /\ phase = "failed"
    /\ container = NoContainer
    /\ Cardinality({ i \in Identities : build_count[i] = 1 }) = 2

----------------------------------------------------------------------------
(* C9 *)

----------------------------------------------------------------------------
(* C10 *)

\* C10: a register call for interface I changes only the entry of I.  Every
\* step that registers leaves under I a new record made of the call's
\* arguments with no parameter overrides, returns a handle to that record,
\* and leaves every other registration as it was; every step that attaches a
\* parameter changes only the record the handle of the latest register call
\* refers to.
C10_RegisterFrame ==
    [][ /\ n_registrations' # n_registrations =>
              LET I == last_call'.interface IN
              /\ n_registrations' = n_registrations + 1
              /\ handle' = I
              /\ DOMAIN registration_map' = DOMAIN registration_map \cup {I}
              /\ registration_map'[I] =
                    [component    |-> last_call'.name,
                     build        |-> last_call'.name,
                     dependencies |-> last_call'.dependencies,
                     parameters   |-> {}]
              /\ \A j \in DOMAIN registration_map \ {I} :
                    registration_map'[j] = registration_map[j]
        /\ n_registrations' = n_registrations =>
              /\ handle' = handle
              /\ handle = last_call.interface
              /\ DOMAIN registration_map' = DOMAIN registration_map
              /\ \A j \in DOMAIN registration_map \ {handle} :
                    registration_map'[j] = registration_map[j]
              /\ registration_map'[handle].parameters # {}
      ]_vars

\* An interface was just registered again: its record has no parameters,
\* while another registration keeps the parameter attached to it earlier.
C10_Witness ==
    /\ phase = "registering"
    /\ warning # NoWarning
    /\ handle = warning.interface
    /\ registration_map[handle].parameters = {}
    /\ registration_map[handle].component = "Impl1"
    /\ n_registrations = 4
    /\ \E j \in DOMAIN registration_map \ {handle} :
          registration_map[j].parameters # {}

====
